---- MODULE Spec2Model ----
(***************************************************************************)
(* Silence-gated audio capture of lumine: AudioRecorder::record_audio      *)
(* (src/src/audio/recorder.rs; src/src/ffmpeg/mod.rs is the same code).    *)
(*                                                                         *)
(* Three kinds of process take steps: the supervisor (the async task that  *)
(* runs record_audio), the line-reading task started by spawn_blocking,    *)
(* and one silence-timer task per processed silence_start line.  The       *)
(* recorder subprocess is the environment: it writes lines to its stderr   *)
(* and may end by itself with any status, unless it is killed first.       *)
(* Time is discrete: Tick is one second.                                   *)
(***************************************************************************)
EXTENDS Integers, Sequences, FiniteSets, TLC

\* ------------------------------------------------------------------ bounds
MaxStarts == 2       \* silence_start lines the recorder writes
SilenceLimit == 2    \* the configured silence_limit, in seconds
MaxDevices == 2      \* devices in a catalog
MaxNameLen == 2      \* characters in a device name or preferred name
MaxProbeLines == 2   \* lines of the version probe's output
MaxListLines == 2    \* lines of the device listing's output
MaxNoise == 2        \* the configured silence_detect_noise, in dB
MaxDuration == 2     \* the configured max_recording_duration, in seconds
MaxTemps == 2        \* TemporaryFile values of one run

\* --------------------------------------------------------------- constants
STOP_EXIT_CODE == 255
KILL_SIGNAL == 9
DEFAULT_SILENCE_DETECT_NOISE_DB == 40
DEFAULT_MAX_RECORDING_DURATION_SECONDS == 60

VARIABLES
  pc,                            \* where the supervisor is in record_audio
  result,                        \* what record_audio returned ("none" before)
  preferred_audio_input_device,  \* AudioRecorder field
  devices,                       \* the catalog the listing returned
  device,                        \* the selected device
  probe,                         \* what the version probe found
  procs,                         \* OS processes spawned so far by this attempt
  directory,                     \* "unknown", "created", "failed"
  child,                         \* "none", "running", "exited", "reaped"
  exit_status,                   \* the ExitStatus once the child has exited
  exit_cause,                    \* "none", "self", "kill"
  child_lock,                    \* holder of the Mutex<Child>
  should_kill,                   \* the shared Mutex<bool>
  reader,                        \* where the line-reading task is
  line,                          \* the reader's line buffer ("" when cleared)
  timers,                        \* the silence-timer tasks, in spawn order
  timer_slot,                    \* _timer: index of the held JoinHandle, 0 = None
  kills,                         \* calls of Child::kill so far
  marker_seen,                   \* ghost: a line holding a marker was read
  platform,                      \* "macos" or "linux": the AudioPlatform built
  silence_detect_noise,          \* AudioRecorder field
  recorder_config,               \* RecorderConfig.max_recording_duration
  max_recording_duration,        \* Audio field, from the configuration
  list_output,                   \* what the device listing prints on this host
  verbose,                       \* AudioRecorder field
  args,                          \* the recorder's argument list
  file,                          \* the output file: "absent" or "present"
  temps,                         \* the TemporaryFile values and their files
  remove_after_transcript        \* GeneralConfig field, as its getter gives it

\* What a capture reads and never writes.
inputVars == << platform, silence_detect_noise, recorder_config,
                max_recording_duration, list_output, verbose >>

\* What only the steps after a capture write.
tempVars == << temps, remove_after_transcript >>

vars == << pc, result, preferred_audio_input_device, devices, device, probe,
           procs, directory, child, exit_status, exit_cause,
           child_lock, should_kill, reader, line, timers, timer_slot,
           kills, marker_seen, inputVars, args, file, tempVars >>

\* ------------------------------------------------------------------ strings
\* A string is a sequence of characters, so that String::contains is computed.
Chars == {"a", "b"}

RECURSIVE SeqsUpTo(_, _)
SeqsUpTo(S, n) ==
  IF n = 0 THEN { <<>> }
  ELSE LET shorter == SeqsUpTo(S, n - 1)
       IN  shorter \cup { Append(s, x) : s \in shorter, x \in S }

Names == SeqsUpTo(Chars, MaxNameLen)

\* str::contains: some window of hay equals needle; "" is contained in all.
Contains(hay, needle) ==
  \E k \in 0..(Len(hay) - Len(needle)) :
    \A j \in 1..Len(needle) : hay[k + j] = needle[j]

\* ------------------------------------------------------------------ devices
AudioInputDevice(index, name) == [index |-> index, name |-> name]

DefaultDevice == AudioInputDevice("default", <<"d","e","f","a","u","l","t">>)

IndexStrings == << "0", "1", "2", "3" >>

\* Catalogs as the listing builds them: the i-th entry carries index i-1.
CatalogsOfLen(n) ==
  { [i \in 1..n |-> AudioInputDevice(IndexStrings[i], f[i])] : f \in [1..n -> Names] }

Catalogs == UNION { CatalogsOfLen(n) : n \in 0..MaxDevices }

\* Variant: the scan keeps the last matching device instead of the first.
RECURSIVE LastMatchFrom(_, _, _)
LastMatchFrom(catalog, preferred, i) ==
  IF i > Len(catalog) THEN DefaultDevice
  ELSE LET later == LastMatchFrom(catalog, preferred, i + 1)
       IN  IF later # DefaultDevice THEN later
           ELSE IF Contains(catalog[i].name, preferred) THEN catalog[i]
           ELSE DefaultDevice

\* Variant: a scan that found nothing falls back to the first listed device.
RECURSIVE FirstMatchOrFirstListed(_, _, _)
FirstMatchOrFirstListed(catalog, preferred, i) ==
  IF i > Len(catalog)
  THEN IF catalog # <<>> THEN catalog[1] ELSE DefaultDevice
  ELSE IF Contains(catalog[i].name, preferred) THEN catalog[i]
  ELSE FirstMatchOrFirstListed(catalog, preferred, i + 1)

\* The scan of select_audio_input_device from position i on.
RECURSIVE FirstMatchFrom(_, _, _)
FirstMatchFrom(catalog, preferred, i) ==
  IF i > Len(catalog) THEN DefaultDevice
  ELSE IF Contains(catalog[i].name, preferred) THEN catalog[i]
  ELSE FirstMatchFrom(catalog, preferred, i + 1)

\* Variant: the scan runs without the is_empty test.
select_without_empty_test(catalog, preferred) ==
  FirstMatchFrom(catalog, preferred, 1)

select_audio_input_device(catalog, preferred) ==
  IF preferred = <<>> THEN DefaultDevice
  ELSE FirstMatchFrom(catalog, preferred, 1)

\* LinuxPlatform::select_audio_input_device: `for device in devices` from
\* position i on, then the default device.
RECURSIVE LinuxDeviceLoop(_, _, _)
LinuxDeviceLoop(catalog, preferred, i) ==
  IF i <= Len(catalog)
  THEN IF Contains(catalog[i].name, preferred)
       THEN catalog[i]
       ELSE LinuxDeviceLoop(catalog, preferred, i + 1)
  ELSE DefaultDevice

LinuxPlatform_select_audio_input_device(catalog, preferred) ==
  IF Len(preferred) = 0 THEN DefaultDevice
  ELSE LinuxDeviceLoop(catalog, preferred, 1)

\* MacOSPlatform::select_audio_input_device: the devices not yet visited by
\* `for device in devices`, then the default device.
RECURSIVE MacOSDeviceLoop(_, _)
MacOSDeviceLoop(rest, preferred) ==
  IF rest = <<>> THEN DefaultDevice
  ELSE IF Contains(Head(rest).name, preferred) THEN Head(rest)
  ELSE MacOSDeviceLoop(Tail(rest), preferred)

MacOSPlatform_select_audio_input_device(catalog, preferred) ==
  IF Len(preferred) = 0 THEN DefaultDevice
  ELSE MacOSDeviceLoop(catalog, preferred)

\* -------------------------------------------------------------- exit status
ExitCode(n) == [kind |-> "exit", n |-> n]
Signalled(n) == [kind |-> "signal", n |-> n]
NoStatus == [kind |-> "none", n |-> 0]

Statuses == { ExitCode(0), ExitCode(1), ExitCode(STOP_EXIT_CODE),
              Signalled(KILL_SIGNAL), Signalled(15) }

StatusSuccess(s) == s.kind = "exit" /\ s.n = 0
StatusCodeIs(s, c) == s.kind = "exit" /\ s.n = c
StatusSignalIs(s, g) == s.kind = "signal" /\ s.n = g

\* Variants: the test without the signal exemption, without the code exemption.
ExitRejectedUnlessCode(s) ==
  ~StatusSuccess(s) /\ ~StatusCodeIs(s, STOP_EXIT_CODE)

ExitRejectedUnlessSignal(s) ==
  ~StatusSuccess(s) /\ ~StatusSignalIs(s, KILL_SIGNAL)

\* The test of record_audio_with_device on the waited status.
ExitRejected(s) ==
  /\ ~StatusSuccess(s)
  /\ ~StatusCodeIs(s, STOP_EXIT_CODE)
  /\ ~StatusSignalIs(s, KILL_SIGNAL)

\* ------------------------------------------------------- diagnostic lines
\* A line is known by what the loop asks of it: whether read_line fails on it
\* (bytes that are not UTF-8) and which of the two markers it contains.
LineKinds == { "other", "start", "end", "both", "malformed" }

\* Variant: every readable line that is not a silence_end counts as a start.
ContainsSilenceStartLoose(l) == l \in { "start", "both", "other" }

\* Variant: a silence_end arms a timer as well.
ContainsEitherMarker(l) == l \in { "start", "both", "end" }

\* Variant: a line without silence_start counts as a silence_end.
ContainsSilenceEndLoose(l) == l \in { "end", "both", "other" }

ReadLineFails(l) == l = "malformed"
ContainsSilenceStart(l) == l \in { "start", "both" }
ContainsSilenceEnd(l) == l \in { "end", "both" }

\* ------------------------------------------------------------ version probe
\* The probe's stdout, line by line: TRUE for a line containing "ffmpeg version".
ProbeOutputs == SeqsUpTo(BOOLEAN, MaxProbeLines)

\* Variant: any output of a probe that ran is taken for a version line.
check_ffmpeg_any_output(ran, out) == IF ~ran THEN "FFMPEGNotFound" ELSE "Ok"

check_ffmpeg(ran, out) ==
  IF ~ran THEN "FFMPEGNotFound"
  ELSE IF \E i \in 1..Len(out) : out[i] THEN "Ok"
  ELSE "FFMPEGNotFound"

\* ------------------------------------------------------------ configuration
\* Option<i32>
None == [some |-> FALSE, v |-> 0]
Some(d) == [some |-> TRUE, v |-> d]

\* the range of an i32
I32_MAX == 2147483647
I32_MIN == -I32_MAX - 1

ConfiguredDurations ==
  { None } \cup { Some(d) : d \in (-MaxDuration..MaxDuration) \cup { I32_MIN, I32_MAX } }

\* Variant: a configured value is passed on as it is.
get_max_recording_duration_unclamped(cfg) ==
  IF ~cfg.some THEN DEFAULT_MAX_RECORDING_DURATION_SECONDS ELSE cfg.v

\* Config::get_max_recording_duration
get_max_recording_duration(cfg) ==
  IF ~cfg.some THEN DEFAULT_MAX_RECORDING_DURATION_SECONDS
  ELSE IF cfg.v <= 0 THEN 0
  ELSE cfg.v

\* --------------------------------------------------------- command builder
\* An argument is the sequence of the pieces its text is put together from;
\* a number is written in decimal, as format!'s {} writes an i32.
Platforms == { "macos", "linux" }

InputFormat(p) == IF p = "linux" THEN "pulse" ELSE "avfoundation"

\* format!(":{}", device_index)
InputSource(index) == << ":", index >>

\* format!("silencedetect=n=-{}dB:d={}", silence_detect_noise, silence_limit)
SilenceDetectFilter(noise, limit) ==
  << "silencedetect=n=-", ToString(noise), "dB:d=", ToString(limit) >>

\* format!("{}/audiocapture_{}.wav", self.recordings_directory, timestamp)
OutputFile == << "recordings", "/audiocapture_", "timestamp", ".wav" >>

\* Variant: the overwrite flag is put before the output path.
build_arguments_overwrite_first(p, index, limit, noise, max_duration, out) ==
  << << "-f" >>, << InputFormat(p) >>, << "-i" >>, InputSource(index),
     << "-acodec" >>, << "pcm_s16le" >>,
     << "-af" >>, SilenceDetectFilter(noise, limit),
     << "-y" >>, out >>

\* AudioPlatform::build_ffmpeg_recording_arguments as the trait declares it,
\* with the body of the two implementations (and of the recorder's own
\* Command): max_duration is not used.
build_ffmpeg_recording_arguments(p, index, limit, noise, max_duration, out) ==
  << << "-f" >>, << InputFormat(p) >>, << "-i" >>, InputSource(index),
     << "-acodec" >>, << "pcm_s16le" >>,
     << "-af" >>, SilenceDetectFilter(noise, limit),
     out, << "-y" >> >>

\* ----------------------------------------------------------- device listing
\* A line of the listing is known by what the parse asks of it: whether it is
\* the header of the audio section, and whether the entry pattern captures an
\* index and a name from it.
Header == [kind |-> "header", index |-> "", name |-> <<>>]
OtherLine == [kind |-> "other", index |-> "", name |-> <<>>]
Entry(index, name) == [kind |-> "entry", index |-> index, name |-> name]

ListingLines ==
  { Header, OtherLine,
    Entry(IndexStrings[1], <<"a">>), Entry(IndexStrings[2], <<"b">>) }

ListingOutputs == SeqsUpTo(ListingLines, MaxListLines)

\* Variant: entries count whether or not the header came before them.
RECURSIVE ParseAnyEntryFrom(_, _, _, _)
ParseAnyEntryFrom(out, i, audio_section, found) ==
  IF i > Len(out) THEN found
  ELSE IF out[i].kind = "entry"
  THEN ParseAnyEntryFrom(out, i + 1, audio_section,
                         Append(found, AudioInputDevice(out[i].index, out[i].name)))
  ELSE ParseAnyEntryFrom(out, i + 1, audio_section, found)

\* The `for line in output_str.lines()` loop of get_audio_input_devices.
RECURSIVE ParseDevicesFrom(_, _, _, _)
ParseDevicesFrom(out, i, audio_section, found) ==
  IF i > Len(out) THEN found
  ELSE IF out[i].kind = "header"
  THEN ParseDevicesFrom(out, i + 1, TRUE, found)
  ELSE IF audio_section /\ out[i].kind = "entry"
  THEN ParseDevicesFrom(out, i + 1, audio_section,
                        Append(found, AudioInputDevice(out[i].index, out[i].name)))
  ELSE ParseDevicesFrom(out, i + 1, audio_section, found)

ParseDevices(out) == ParseDevicesFrom(out, 1, FALSE, <<>>)

\* A listing that the parse turns into the given catalog.
ListingOf(catalog) ==
  << Header >> \o [i \in 1..Len(catalog) |->
                    Entry(catalog[i].index, catalog[i].name)]

\* ------------------------------------------------------------- output file
\* Variant: a rejected exit status removes the output file.
FileRemovedWhenRejected(f, rejected) == IF rejected THEN "absent" ELSE f

\* Between wait() and either return no statement touches the output file.
FileAfterStatusTest(f, rejected) == f

\* --------------------------------------------------------- temporary files
\* A TemporaryFile and the file at its path: st is "unborn" before new,
\* "held" while the value lives, "dropping" once it is dropped and "dropped"
\* when the drop has done its work; keep is the flag keep() sets; exists
\* tells whether the file is on disk; at_new and cleaned are ghosts: the
\* file was there at new, cleanup() was called.
DEFAULT_REMOVE_AFTER_TRANSCRIPT == TRUE

Unborn(e) ==
  [st |-> "unborn", keep |-> FALSE, exists |-> e, at_new |-> FALSE,
   cleaned |-> FALSE]

\* Variant: the drop removes the file whatever the keep flag says.
ExistsAfterDropAlwaysRemoved(t) == FALSE

\* Drop for TemporaryFile: the file is removed unless keep() was called.
ExistsAfterDrop(t) == IF t.keep THEN t.exists ELSE FALSE

\* TemporaryFile::keep
AfterKeep(t) == [t EXCEPT !.keep = TRUE]

\* TemporaryFile::cleanup: the file is removed at once.
AfterCleanup(t) == [t EXCEPT !.exists = FALSE, !.cleaned = TRUE]

\* App::cleanup_file
cleanup_file(remove, t) == IF remove THEN AfterCleanup(t) ELSE AfterKeep(t)

\* ------------------------------------------------------------------- timers
\* Variant: the kill also acts on a recorder that has ended.
KillDeliveredToAny(c) == c # "none"

\* Child::kill signals a recorder that has not ended; otherwise it does nothing.
KillDelivered(c) == c = "running"

\* Variant: the handle is used without waiting for its mutex.
LockNotAwaited(holder) == TRUE

\* Mutex::lock on the Arc<Mutex<Child>> returns once no other task holds it.
LockAcquired(holder) == holder = "free"

NewTimer == [st |-> "sleep", rem |-> SilenceLimit, disarmed |-> FALSE]

\* The value a processed silence_start / silence_end writes to should_kill.
\* Variant: silence_end leaves the flag set.
FlagLeftSet == TRUE

FlagAfterSilenceStart == TRUE
FlagAfterSilenceEnd == FALSE

\* Dropping a tokio JoinHandle detaches the task: it keeps running.
AfterHandleDropped(t) == t

\* ghost: a silence_end was processed while the timer had not yet read the flag
NoteDisarm(ts) ==
  [i \in 1..Len(ts) |->
     IF ts[i].st = "sleep" THEN [ts[i] EXCEPT !.disarmed = TRUE] ELSE ts[i]]

DropHandle(ts, slot) ==
  [i \in 1..Len(ts) |-> IF i = slot THEN AfterHandleDropped(ts[i]) ELSE ts[i]]

\* --------------------------------------------------------------------- Init
\* The listings tried in a whole capture: nothing, or the header and one
\* device named "a".
ListedOutputs == { <<>>, << Header, Entry(IndexStrings[1], <<"a">>) >> }

CaptureStart ==
  /\ pc = "start"
  /\ result = "none"
  /\ preferred_audio_input_device \in { <<>>, <<"a">> }
  /\ devices = <<>>
  /\ device = DefaultDevice
  /\ probe = "none"
  /\ procs = 0
  /\ directory = "unknown"
  /\ child = "none"
  /\ exit_status = NoStatus
  /\ exit_cause = "none"
  /\ child_lock = "free"
  /\ should_kill = TRUE
  /\ reader = "idle"
  /\ line = ""
  /\ timers = <<>>
  /\ timer_slot = 0
  /\ kills = 0
  /\ marker_seen = FALSE
  /\ platform = "macos"
  /\ silence_detect_noise = DEFAULT_SILENCE_DETECT_NOISE_DB
  /\ recorder_config = None
  /\ max_recording_duration = get_max_recording_duration(None)
  /\ list_output \in ListedOutputs
  /\ args = <<>>
  /\ file = "absent"
  /\ temps = [i \in 1..MaxTemps |-> Unborn(FALSE)]
  /\ remove_after_transcript = DEFAULT_REMOVE_AFTER_TRANSCRIPT

\* A capture that prints nothing.
Init == CaptureStart /\ verbose = FALSE

captureVars == << child, exit_status, exit_cause, child_lock,
                  should_kill, reader, line, timers, timer_slot, kills,
                  marker_seen, args, file >>

Return(r) == pc' = "done" /\ result' = r

\* --------------------------------------------------------------- supervisor
\* record_audio: self.check_ffmpeg().await?
CheckFfmpeg ==
  /\ pc = "start"
  /\ \E ran \in BOOLEAN, out \in ProbeOutputs :
       /\ procs' = IF ran THEN procs + 1 ELSE procs
       /\ probe' = IF ~ran THEN "unrunnable"
                   ELSE IF \E i \in 1..Len(out) : out[i] THEN "found"
                   ELSE "noversion"
       /\ IF check_ffmpeg(ran, out) = "Ok"
          THEN pc' = "checked" /\ result' = result
          ELSE Return(check_ffmpeg(ran, out))
  /\ UNCHANGED << preferred_audio_input_device, devices, device, directory,
                  captureVars, inputVars, tempVars >>

\* record_audio: let devices = self.get_audio_input_devices().await?
GetAudioInputDevices ==
  /\ pc = "checked"
  /\ \E ran \in BOOLEAN :
       IF ran
       THEN /\ devices' = ParseDevices(list_output)
            /\ procs' = procs + 1
            /\ pc' = "listed" /\ result' = result
       ELSE /\ Return("CouldNotExecuteFFMPEG")
            /\ UNCHANGED << devices, procs >>
  /\ UNCHANGED << preferred_audio_input_device, device, probe, directory,
                  captureVars, inputVars, tempVars >>

\* record_audio: let device = self.select_audio_input_device(devices)
SelectAudioInputDevice ==
  /\ pc = "listed"
  /\ device' = select_audio_input_device(devices, preferred_audio_input_device)
  /\ pc' = "selected"
  /\ UNCHANGED << result, preferred_audio_input_device, devices, probe, procs,
                  directory, captureVars, inputVars, tempVars >>

\* Variant: the error of create_directory_all is dropped.
create_directory_all_unchecked(ok) == "Ok"

\* operations::create_directory_all(..).map_err(|_| CouldNotCreateDirectory)
create_directory_all(ok) == IF ok THEN "Ok" ELSE "CouldNotCreateDirectory"

\* record_audio_with_device: the directory is created, or the error returned.
CreateDirectory ==
  /\ pc = "selected"
  /\ \E ok \in BOOLEAN :
       /\ directory' = IF ok THEN "created" ELSE "failed"
       /\ IF create_directory_all(ok) = "Ok"
          THEN pc' = "dir_ok" /\ result' = result
          ELSE Return(create_directory_all(ok))
  /\ UNCHANGED << preferred_audio_input_device, devices, device, probe, procs,
                  captureVars, inputVars, tempVars >>

\* Variant: a failed spawn is reported as a missing tool.
SpawnErrorNotFound == "FFMPEGNotFound"

\* .spawn().map_err(|_| AudioError::CouldNotExecuteFFMPEG)
SpawnError == "CouldNotExecuteFFMPEG"

\* record_audio_with_device: Command::new("ffmpeg")...spawn(), the Arc<Mutex<..>>
\* wrappers, should_kill = true, and task::spawn_blocking of the line reader.
\* stderr is piped, so stderr.take() is Some and the ok_or never fails.
SpawnRecorder ==
  /\ pc = "dir_ok"
  /\ \E ok \in BOOLEAN :
       IF ok
       THEN /\ child' = "running"
            /\ procs' = procs + 1
            /\ should_kill' = TRUE
            /\ reader' = "read"
            /\ args' = build_ffmpeg_recording_arguments(
                          platform, device.index, SilenceLimit,
                          silence_detect_noise, max_recording_duration,
                          OutputFile)
            /\ pc' = "await_reader" /\ result' = result
       ELSE /\ Return(SpawnError)
            /\ UNCHANGED << child, procs, should_kill, reader, args >>
  /\ UNCHANGED << preferred_audio_input_device, devices, device, probe,
                  directory, exit_status, exit_cause, child_lock, line,
                  timers, timer_slot, kills, marker_seen,
                  inputVars, tempVars, file >>

\* `if handle.await.is_err() { return Err(CouldNotReadFFMPEGOutput) }`: the
\* reader task has returned, or it has panicked and the JoinError is turned
\* into the error at once.
JoinReader ==
  /\ pc = "await_reader"
  /\ reader \in { "eof", "error", "panicked" }
  /\ IF reader = "panicked"
     THEN Return("CouldNotReadFFMPEGOutput")
     ELSE pc' = "joined" /\ result' = result
  /\ UNCHANGED << preferred_audio_input_device, devices, device, probe,
                  procs, directory, captureVars, inputVars, tempVars >>

\* child.lock().unwrap() of `child.lock().unwrap().wait()`
WaitLock ==
  /\ pc = "joined"
  /\ LockAcquired(child_lock)
  /\ child_lock' = "supervisor"
  /\ pc' = "waiting"
  /\ UNCHANGED << result, preferred_audio_input_device, devices, device, probe,
                  procs, directory, child, exit_status,
                  exit_cause, should_kill, reader, line, timers,
                  timer_slot, kills, marker_seen,
                  inputVars, tempVars, args, file >>

\* wait() returns once the child has exited; the guard is dropped at the end of
\* the statement; then the status test and the return.
WaitExit ==
  /\ pc = "waiting"
  /\ child = "exited"
  /\ child' = "reaped"
  /\ child_lock' = "free"
  /\ Return(IF ExitRejected(exit_status) THEN "CouldNotExecuteFFMPEG" ELSE "Ok")
  /\ file' = FileAfterStatusTest(file, ExitRejected(exit_status))
  /\ UNCHANGED << preferred_audio_input_device, devices, device, probe, procs,
                  directory, exit_status, exit_cause,
                  should_kill, reader, line, timers, timer_slot, kills, marker_seen,
                  inputVars, tempVars, args >>

\* ------------------------------------------------------ line-reading task
\* `while let Ok(n) = reader.read_line(&mut line)` on the line the recorder
\* wrote next (a line written before the recorder ended can be read after
\* it), and `if line.contains("silence_start") { .. }`: the flag is set and a
\* timer task is spawned; the JoinHandle that _timer held is dropped.
ReadLine(l) ==
  /\ reader = "read"
  /\ ContainsSilenceStart(l) => Len(timers) < MaxStarts
  /\ marker_seen' = (marker_seen \/ l \in { "start", "end", "both" })
  /\ IF ReadLineFails(l)
     THEN /\ reader' = "error"
          /\ UNCHANGED << line, should_kill, timers, timer_slot >>
     ELSE /\ reader' = "check_end"
          /\ line' = l
          /\ IF ContainsSilenceStart(l)
             THEN /\ should_kill' = FlagAfterSilenceStart
                  /\ timers' = Append(DropHandle(timers, timer_slot), NewTimer)
                  /\ timer_slot' = Len(timers) + 1
             ELSE UNCHANGED << should_kill, timers, timer_slot >>
  /\ UNCHANGED << pc, result, preferred_audio_input_device, devices, device,
                  probe, procs, directory, child, exit_status, exit_cause,
                  child_lock, kills, inputVars, tempVars, args, file >>

\* `if line.contains("silence_end") { *should_kill = false; _timer = None; }`
\* and `line.clear()`.
CheckSilenceEnd ==
  /\ reader = "check_end"
  /\ IF ContainsSilenceEnd(line)
     THEN /\ should_kill' = FlagAfterSilenceEnd
          /\ timers' = NoteDisarm(DropHandle(timers, timer_slot))
          /\ timer_slot' = 0
     ELSE UNCHANGED << should_kill, timers, timer_slot >>
  /\ line' = ""
  /\ reader' = "read"
  /\ UNCHANGED << pc, result, preferred_audio_input_device, devices, device,
                  probe, procs, directory, child, exit_status, exit_cause,
                  child_lock, kills, marker_seen,
                  inputVars, tempVars, args, file >>

\* read_line returns Ok(0): the pipe is empty and its write end is closed
\* because the recorder is gone.
ReadEof ==
  /\ reader = "read"
  /\ child \in { "exited", "reaped" }
  /\ reader' = "eof"
  /\ UNCHANGED << pc, result, preferred_audio_input_device, devices, device,
                  probe, procs, directory, child, exit_status, exit_cause,
                  child_lock, should_kill, line, timers, timer_slot, kills, marker_seen,
                  inputVars, tempVars, args, file >>

\* println! panics when the write to stdout fails.
PrintlnPanics(written) == ~written

\* One of the reader task's `if verbose { println!(..) }` panics: the one of a
\* silence_start (before the flag is written and the timer spawned), the one
\* of a silence_end (before the flag is cleared), or "Recording ended." after
\* the loop.  The task ends there; a timer task already spawned runs on.
ReaderPanic ==
  /\ verbose
  /\ \E written \in BOOLEAN : PrintlnPanics(written)
  /\ \/ /\ reader = "read"
        /\ \E l \in LineKinds : ~ReadLineFails(l) /\ ContainsSilenceStart(l)
        /\ marker_seen' = TRUE
     \/ /\ reader = "check_end"
        /\ ContainsSilenceEnd(line)
        /\ UNCHANGED marker_seen
     \/ /\ reader = "read"
        /\ \/ child \in { "exited", "reaped" }
           \/ \E l \in LineKinds : ReadLineFails(l)
        /\ UNCHANGED marker_seen
  /\ reader' = "panicked"
  /\ UNCHANGED << pc, result, preferred_audio_input_device, devices, device,
                  probe, procs, directory, child, exit_status, exit_cause,
                  child_lock, should_kill, line, timers, timer_slot, kills,
                  inputVars, tempVars, args, file >>

\* ------------------------------------------------------------- timer tasks
\* The sleep is over and `if *kill_flag.lock().unwrap()` is evaluated; the
\* guard is a temporary of the condition and is dropped before the body runs.
TimerFire(i) ==
  /\ i \in 1..Len(timers)
  /\ timers[i].st = "sleep"
  /\ timers[i].rem = 0
  /\ timers' = [timers EXCEPT ![i].st = IF should_kill THEN "kill" ELSE "done"]
  /\ UNCHANGED << pc, result, preferred_audio_input_device, devices, device,
                  probe, procs, directory, child,
                  exit_status, exit_cause, child_lock, should_kill, reader,
                  line, timer_slot, kills, marker_seen,
                  inputVars, tempVars, args, file >>

\* `let _ = child_for_timer.lock().unwrap().kill();`  Child::kill sends SIGKILL
\* to a child that was not waited for, and is Ok(()) for one that was.
TimerKill(i) ==
  /\ i \in 1..Len(timers)
  /\ timers[i].st = "kill"
  /\ LockAcquired(child_lock)
  /\ kills' = kills + 1
  /\ timers' = [timers EXCEPT ![i].st = "done"]
  /\ IF KillDelivered(child)
     THEN /\ child' = "exited"
          /\ exit_status' = Signalled(KILL_SIGNAL)
          /\ exit_cause' = "kill"
     ELSE UNCHANGED << child, exit_status, exit_cause >>
  /\ UNCHANGED << pc, result, preferred_audio_input_device, devices, device,
                  probe, procs, directory, child_lock,
                  should_kill, reader, line, timer_slot, marker_seen,
                  inputVars, tempVars, args, file >>

\* One second passes for every sleeping timer.
Tick ==
  /\ \E i \in 1..Len(timers) : timers[i].st = "sleep" /\ timers[i].rem > 0
  /\ timers' = [i \in 1..Len(timers) |->
                  IF timers[i].st = "sleep" /\ timers[i].rem > 0
                  THEN [timers[i] EXCEPT !.rem = @ - 1]
                  ELSE timers[i]]
  /\ UNCHANGED << pc, result, preferred_audio_input_device, devices, device,
                  probe, procs, directory, child,
                  exit_status, exit_cause, child_lock, should_kill, reader,
                  line, timer_slot, kills, marker_seen,
                  inputVars, tempVars, args, file >>

\* ------------------------------------------------------ recorder subprocess
\* The recorder creates the output file and starts to write it.
ChildWrite ==
  /\ child = "running"
  /\ file = "absent"
  /\ file' = "present"
  /\ UNCHANGED << pc, result, preferred_audio_input_device, devices, device,
                  probe, procs, directory, child, exit_status, exit_cause,
                  child_lock, should_kill, reader, line, timers, timer_slot,
                  kills, marker_seen, inputVars, tempVars, args >>

\* The recorder ends by itself, with some status.
ChildExit ==
  /\ child = "running"
  /\ \E st \in Statuses : exit_status' = st
  /\ child' = "exited"
  /\ exit_cause' = "self"
  /\ UNCHANGED << pc, result, preferred_audio_input_device, devices, device,
                  probe, procs, directory, child_lock,
                  should_kill, reader, line, timers, timer_slot, kills, marker_seen,
                  inputVars, tempVars, args, file >>

\* ------------------------------------------------------------ specifications
TimerIds == 1..MaxStarts

Next ==
  \/ CheckFfmpeg
  \/ GetAudioInputDevices
  \/ SelectAudioInputDevice
  \/ CreateDirectory
  \/ SpawnRecorder
  \/ JoinReader
  \/ WaitLock
  \/ WaitExit
  \/ \E l \in LineKinds : ReadLine(l)
  \/ CheckSilenceEnd
  \/ ReadEof
  \/ \E i \in TimerIds : TimerFire(i)
  \/ \E i \in TimerIds : TimerKill(i)
  \/ Tick
  \/ ChildExit

Spec == Init /\ [][Next]_vars

\* The tokio multi-thread runtime runs every ready task and the clock
\* advances.  Nothing is assumed of the recorder: it may stop writing lines
\* and it may never end by itself.  Once it is gone the pipe holds finitely
\* many lines, so the end of the stream is read in the end.
Fairness ==
  /\ WF_vars(CheckFfmpeg) /\ WF_vars(GetAudioInputDevices)
  /\ WF_vars(SelectAudioInputDevice) /\ WF_vars(CreateDirectory)
  /\ WF_vars(SpawnRecorder) /\ WF_vars(JoinReader)
  /\ WF_vars(WaitLock) /\ WF_vars(WaitExit)
  /\ WF_vars(CheckSilenceEnd) /\ SF_vars(ReadEof)
  /\ \A i \in TimerIds : WF_vars(TimerFire(i)) /\ WF_vars(TimerKill(i))
  /\ WF_vars(Tick)

FairSpec == Spec /\ Fairness

\* The capture together with the recorder's writing of its output file, which
\* no step of Spec depends on.
FileNext == Next \/ ChildWrite

FileSpec == Init /\ [][FileNext]_vars

\* The capture with verbose set, where the reader task's prints can fail.
VerboseInit == CaptureStart /\ verbose = TRUE

VerboseNext == Next \/ ReaderPanic

VerboseSpec == VerboseInit /\ [][VerboseNext]_vars

\* Device selection alone, from every catalog and every preferred name.
SelInit ==
  /\ pc = "listed"
  /\ result = "none"
  /\ preferred_audio_input_device \in Names
  /\ devices \in Catalogs
  /\ device = DefaultDevice
  /\ probe = "found"
  /\ procs = 2
  /\ directory = "unknown"
  /\ child = "none"
  /\ exit_status = NoStatus
  /\ exit_cause = "none"
  /\ child_lock = "free"
  /\ should_kill = TRUE
  /\ reader = "idle"
  /\ line = ""
  /\ timers = <<>>
  /\ timer_slot = 0
  /\ kills = 0
  /\ marker_seen = FALSE
  /\ platform = "macos"
  /\ silence_detect_noise = DEFAULT_SILENCE_DETECT_NOISE_DB
  /\ recorder_config = None
  /\ max_recording_duration = get_max_recording_duration(None)
  /\ list_output = ListingOf(devices)
  /\ verbose = FALSE
  /\ args = <<>>
  /\ file = "absent"
  /\ temps = [i \in 1..MaxTemps |-> Unborn(FALSE)]
  /\ remove_after_transcript = DEFAULT_REMOVE_AFTER_TRANSCRIPT

SelNext == SelectAudioInputDevice

SelSpec == SelInit /\ [][SelNext]_vars

\* The selection as the platform built for this host makes it.
PlatInit ==
  /\ pc = "listed"
  /\ result = "none"
  /\ preferred_audio_input_device \in Names
  /\ devices \in Catalogs
  /\ device = DefaultDevice
  /\ probe = "found"
  /\ procs = 2
  /\ directory = "unknown"
  /\ child = "none"
  /\ exit_status = NoStatus
  /\ exit_cause = "none"
  /\ child_lock = "free"
  /\ should_kill = TRUE
  /\ reader = "idle"
  /\ line = ""
  /\ timers = <<>>
  /\ timer_slot = 0
  /\ kills = 0
  /\ marker_seen = FALSE
  /\ platform \in Platforms
  /\ silence_detect_noise = DEFAULT_SILENCE_DETECT_NOISE_DB
  /\ recorder_config = None
  /\ max_recording_duration = get_max_recording_duration(None)
  /\ list_output = ListingOf(devices)
  /\ verbose = FALSE
  /\ args = <<>>
  /\ file = "absent"
  /\ temps = [i \in 1..MaxTemps |-> Unborn(FALSE)]
  /\ remove_after_transcript = DEFAULT_REMOVE_AFTER_TRANSCRIPT

\* platform.select_audio_input_device(devices, preferred, verbose)
PlatformSelectAudioInputDevice ==
  /\ pc = "listed"
  /\ device' = IF platform = "linux"
               THEN LinuxPlatform_select_audio_input_device(
                      devices, preferred_audio_input_device)
               ELSE MacOSPlatform_select_audio_input_device(
                      devices, preferred_audio_input_device)
  /\ pc' = "selected"
  /\ UNCHANGED << result, preferred_audio_input_device, devices, probe, procs,
                  directory, captureVars, inputVars, tempVars >>

PlatNext == PlatformSelectAudioInputDevice

PlatSpec == PlatInit /\ [][PlatNext]_vars

\* The device listing and what follows it, from every listing output.
ListInit ==
  /\ pc = "checked"
  /\ result = "none"
  /\ preferred_audio_input_device \in { <<>>, <<"a">> }
  /\ devices = <<>>
  /\ device = DefaultDevice
  /\ probe = "found"
  /\ procs = 1
  /\ directory = "unknown"
  /\ child = "none"
  /\ exit_status = NoStatus
  /\ exit_cause = "none"
  /\ child_lock = "free"
  /\ should_kill = TRUE
  /\ reader = "idle"
  /\ line = ""
  /\ timers = <<>>
  /\ timer_slot = 0
  /\ kills = 0
  /\ marker_seen = FALSE
  /\ platform = "macos"
  /\ silence_detect_noise = DEFAULT_SILENCE_DETECT_NOISE_DB
  /\ recorder_config = None
  /\ max_recording_duration = get_max_recording_duration(None)
  /\ list_output \in ListingOutputs
  /\ verbose = FALSE
  /\ args = <<>>
  /\ file = "absent"
  /\ temps = [i \in 1..MaxTemps |-> Unborn(FALSE)]
  /\ remove_after_transcript = DEFAULT_REMOVE_AFTER_TRANSCRIPT

ListNext ==
  \/ GetAudioInputDevices
  \/ SelectAudioInputDevice
  \/ CreateDirectory
  \/ SpawnRecorder

ListSpec == ListInit /\ [][ListNext]_vars

\* Config::get_max_recording_duration, read when the Audio value is built.
GetMaxRecordingDuration ==
  /\ pc = "config"
  /\ max_recording_duration' = get_max_recording_duration(recorder_config)
  /\ pc' = "dir_ok"
  /\ UNCHANGED << result, preferred_audio_input_device, devices, device, probe,
                  procs, directory, captureVars, platform,
                  silence_detect_noise, recorder_config, list_output,
                  verbose, tempVars >>

\* The catalogs the command is built after: no device, or one named "a".
CmdCatalogs == { <<>>, << AudioInputDevice(IndexStrings[1], <<"a">>) >> }

\* ------------------------------------------- after the capture: the files
TempIds == 1..MaxTemps

\* TemporaryFile::new(path)
TempNew(i) ==
  /\ temps[i].st = "unborn"
  /\ temps' = [temps EXCEPT ![i].st = "held", ![i].at_new = temps[i].exists]
  /\ UNCHANGED << pc, result, preferred_audio_input_device, devices, device,
                  probe, procs, directory, captureVars, inputVars,
                  remove_after_transcript >>

\* temp_file.keep()
TempKeep(i) ==
  /\ temps[i].st = "held"
  /\ temps' = [temps EXCEPT ![i] = AfterKeep(temps[i])]
  /\ UNCHANGED << pc, result, preferred_audio_input_device, devices, device,
                  probe, procs, directory, captureVars, inputVars,
                  remove_after_transcript >>

\* temp_file.cleanup().await
TempCleanup(i) ==
  /\ temps[i].st = "held"
  /\ temps' = [temps EXCEPT ![i] = AfterCleanup(temps[i])]
  /\ UNCHANGED << pc, result, preferred_audio_input_device, devices, device,
                  probe, procs, directory, captureVars, inputVars,
                  remove_after_transcript >>

\* self.cleanup_file(&mut temp_file).await
CleanupFile(i) ==
  /\ temps[i].st = "held"
  /\ temps' = [temps EXCEPT ![i] = cleanup_file(remove_after_transcript, temps[i])]
  /\ UNCHANGED << pc, result, preferred_audio_input_device, devices, device,
                  probe, procs, directory, captureVars, inputVars,
                  remove_after_transcript >>

\* The value goes out of scope.
TempDrop(i) ==
  /\ temps[i].st = "held"
  /\ temps' = [temps EXCEPT ![i].st = "dropping"]
  /\ UNCHANGED << pc, result, preferred_audio_input_device, devices, device,
                  probe, procs, directory, captureVars, inputVars,
                  remove_after_transcript >>

\* The drop does its work on the file.
TempDropRun(i) ==
  /\ temps[i].st = "dropping"
  /\ temps' = [temps EXCEPT ![i].st = "dropped",
                            ![i].exists = ExistsAfterDrop(temps[i])]
  /\ UNCHANGED << pc, result, preferred_audio_input_device, devices, device,
                  probe, procs, directory, captureVars, inputVars,
                  remove_after_transcript >>

\* The state a capture without marker lines ends in, with the files that the
\* steps after it wrap: each is on disk or not.
TmpInit ==
  /\ pc = "done"
  /\ result = "Ok"
  /\ preferred_audio_input_device = <<>>
  /\ devices = <<>>
  /\ device = DefaultDevice
  /\ probe = "found"
  /\ procs = 3
  /\ directory = "created"
  /\ child = "reaped"
  /\ exit_status = ExitCode(0)
  /\ exit_cause = "self"
  /\ child_lock = "free"
  /\ should_kill = TRUE
  /\ reader = "eof"
  /\ line = ""
  /\ timers = <<>>
  /\ timer_slot = 0
  /\ kills = 0
  /\ marker_seen = FALSE
  /\ platform = "macos"
  /\ silence_detect_noise = DEFAULT_SILENCE_DETECT_NOISE_DB
  /\ recorder_config = None
  /\ max_recording_duration = get_max_recording_duration(None)
  /\ list_output = <<>>
  /\ verbose = FALSE
  /\ args = build_ffmpeg_recording_arguments(
               platform, device.index, SilenceLimit, silence_detect_noise,
               max_recording_duration, OutputFile)
  /\ file = "present"
  /\ temps \in [1..MaxTemps -> { Unborn(TRUE), Unborn(FALSE) }]
  /\ remove_after_transcript \in BOOLEAN

TmpNext ==
  \E i \in TempIds :
    \/ TempNew(i)
    \/ TempKeep(i)
    \/ TempCleanup(i)
    \/ CleanupFile(i)
    \/ TempDrop(i)
    \/ TempDropRun(i)

TmpSpec == TmpInit /\ [][TmpNext]_vars

\* The configuration getter and the command builder alone, from every
\* configured duration, noise floor, platform and selected device.
CmdInit ==
  /\ pc = "config"
  /\ result = "none"
  /\ preferred_audio_input_device = <<"a">>
  /\ devices \in CmdCatalogs
  /\ device = select_audio_input_device(devices, preferred_audio_input_device)
  /\ probe = "found"
  /\ procs = 2
  /\ directory = "created"
  /\ child = "none"
  /\ exit_status = NoStatus
  /\ exit_cause = "none"
  /\ child_lock = "free"
  /\ should_kill = TRUE
  /\ reader = "idle"
  /\ line = ""
  /\ timers = <<>>
  /\ timer_slot = 0
  /\ kills = 0
  /\ marker_seen = FALSE
  /\ platform \in Platforms
  /\ silence_detect_noise \in 1..MaxNoise
  /\ recorder_config \in ConfiguredDurations
  /\ max_recording_duration = 0
  /\ list_output = ListingOf(devices)
  /\ verbose = FALSE
  /\ args = <<>>
  /\ file = "absent"
  /\ temps = [i \in 1..MaxTemps |-> Unborn(FALSE)]
  /\ remove_after_transcript = DEFAULT_REMOVE_AFTER_TRANSCRIPT

CmdNext == GetMaxRecordingDuration \/ SpawnRecorder

CmdSpec == CmdInit /\ [][CmdNext]_vars

\* ================================================================== claims
Spawned == child # "none"

LiveTimers == { i \in 1..Len(timers) : timers[i].st \in { "sleep", "kill" } }

\* This step is timer i's call of Child::kill.
KillBy(i) ==
  /\ i \in 1..Len(timers)
  /\ timers[i].st = "kill"
  /\ timers'[i].st = "done"
  /\ kills' = kills + 1

\* C1: once a silence_end line has been processed (should_kill is false from
\* then until the next silence_start is processed), no kill request is issued
\* to the recorder, even by a timer that read the flag before the disarm.
C1_NoKillWhileDisarmed == [][kills' # kills => should_kill]_vars

\* C2: at every instant at most one silence-timer task is live (sleeping, or
\* past its flag check and about to kill).
C2_AtMostOneLiveTimer == Cardinality(LiveTimers) <= 1

StartEndStart ==
  /\ Len(timers) = 2
  /\ timers[1].disarmed
  /\ ~timers[2].disarmed

\* C3: a timer that was armed by a silence_start and then disarmed by a
\* silence_end never kills the recorder, also when a later silence_start has
\* set the flag again: after the lines silence_start, silence_end,
\* silence_start a kill is issued only once silence_limit seconds have passed
\* since the second silence_start, that is once the second timer's sleep is
\* over.
C3_NoKillBeforeLatestDeadline ==
  [][StartEndStart /\ kills' # kills => timers[2].rem = 0]_vars

ScenarioB == Spawned /\ timer_slot # 0 /\ should_kill

LeftScenarioB == ~should_kill \/ reader = "error" \/ exit_cause = "self"

DoneByKill ==
  /\ pc = "done"
  /\ result = "Ok"
  /\ kills >= 1
  /\ exit_cause = "kill"
  /\ StatusSignalIs(exit_status, KILL_SIGNAL)

ScenarioC == Spawned /\ Len(timers) = 1 /\ timers[1].disarmed

\* C5 (scenario C): when exactly one silence_start was processed and a
\* silence_end was processed while its timer was still sleeping, no kill is
\* ever issued, and the recorder ends only by itself.
C5_ScenarioC == ScenarioC => kills = 0 /\ exit_cause # "kill"

C5_Witness ==
  /\ ScenarioC
  /\ timers[1].st = "done"
  /\ pc = "done"
  /\ exit_cause = "self"
  /\ kills = 0

\* C6 (scenario A): while no line holding a marker has been read, no timer
\* exists and no kill was issued; and when the recorder ended with status 0,
\* record_audio returns Ok.
C6_ScenarioA ==
  Spawned /\ ~marker_seen =>
    /\ timers = <<>>
    /\ timer_slot = 0
    /\ kills = 0
    /\ (pc = "done" /\ exit_status = ExitCode(0) => result = "Ok")

C6_Witness ==
  /\ Spawned /\ ~marker_seen
  /\ pc = "done" /\ exit_status = ExitCode(0) /\ result = "Ok"

\* C7: once the exit status was collected, record_audio returns Ok exactly
\* when the status is exit code 0, exit code 255 or signal 9, and the
\* execution-failed error otherwise, whether or not a kill was issued.
C7_OutcomeByStatus ==
  pc = "done" /\ child = "reaped" =>
    IF exit_status \in { ExitCode(0), ExitCode(255), Signalled(9) }
    THEN result = "Ok"
    ELSE result = "CouldNotExecuteFFMPEG"

C7_Witness ==
  /\ pc = "done" /\ child = "reaped"
  /\ exit_status = Signalled(9) /\ kills = 0 /\ exit_cause = "self"
  /\ result = "Ok"

\* C8 (scenario D): when the version probe cannot be run or prints no version
\* line, record_audio returns FFMPEGNotFound and nothing else was done: no
\* device listing, no directory creation, no recorder.
C8_ScenarioD ==
  probe \in { "unrunnable", "noversion" } =>
    /\ pc = "done"
    /\ result = "FFMPEGNotFound"
    /\ procs = (IF probe = "noversion" THEN 1 ELSE 0)
    /\ devices = <<>>
    /\ directory = "unknown"
    /\ ~Spawned

C8_Witness == probe = "noversion" /\ pc = "done" /\ result = "FFMPEGNotFound"

\* C9 as stated (scenario E): when the recordings directory cannot be
\* created, record_audio returns CouldNotCreateDirectory and no subprocess at
\* all was spawned during the attempt.
C9_NoSubprocessAtAll ==
  directory = "failed" =>
    pc = "done" /\ result = "CouldNotCreateDirectory" /\ procs = 0

\* C9 as amended: when the recordings directory cannot be created,
\* record_audio returns CouldNotCreateDirectory and no recorder was spawned;
\* the only subprocesses of the attempt are the version probe and the
\* device-list probe, which ran before.
C9_NoRecorderSpawned ==
  directory = "failed" =>
    /\ pc = "done"
    /\ result = "CouldNotCreateDirectory"
    /\ ~Spawned
    /\ procs = 2

C9_Witness == directory = "failed" /\ result = "CouldNotCreateDirectory"

Matches(i) == Contains(devices[i].name, preferred_audio_input_device)

AfterSelection == pc \notin { "start", "checked", "listed" }

\* C10: when some device name contains the non-empty preferred name, the
\* selected device is the first such device of the catalog.
C10_FirstMatch ==
  /\ AfterSelection
  /\ preferred_audio_input_device # <<>>
  /\ \E i \in 1..Len(devices) : Matches(i)
  => \E i \in 1..Len(devices) :
       /\ Matches(i)
       /\ \A j \in 1..(i - 1) : ~Matches(j)
       /\ device = devices[i]

C10_Witness ==
  /\ pc = "selected"
  /\ preferred_audio_input_device # <<>>
  /\ Len(devices) >= 2
  /\ Matches(1) /\ Matches(2)
  /\ devices[1].name # devices[2].name
  /\ device = devices[1]

\* C11: for every catalog, the empty one included, and every non-empty
\* preferred name that no device name contains, the selected device is the
\* default sentinel (index = name = "default").
C11_NoMatchGivesDefault ==
  /\ AfterSelection
  /\ preferred_audio_input_device # <<>>
  /\ \A i \in 1..Len(devices) : ~Matches(i)
  => /\ device = DefaultDevice
     /\ device.index = "default"
     /\ device.name = <<"d","e","f","a","u","l","t">>

C11_Witness ==
  /\ pc = "selected"
  /\ preferred_audio_input_device = <<"a", "b">>
  /\ Len(devices) = 2
  /\ devices[1].name = <<"a">> /\ devices[2].name = <<"b", "a">>
  /\ device = DefaultDevice

\* C12: with an empty preferred name the selected device is the default
\* sentinel for every catalog, although every device name contains "".
C12_EmptyPreferredGivesDefault ==
  AfterSelection /\ preferred_audio_input_device = <<>> => device = DefaultDevice

C12_Witness ==
  /\ pc = "selected"
  /\ preferred_audio_input_device = <<>>
  /\ Len(devices) = 2
  /\ \A i \in 1..Len(devices) : Matches(i)
  /\ device = DefaultDevice /\ device \notin { devices[1], devices[2] }

\* The argument list holds the duration limit: "-t" followed by the seconds.
HasDurationFlag(a, seconds) ==
  \E i \in 1..(Len(a) - 1) : a[i] = << "-t" >> /\ a[i + 1] = << ToString(seconds) >>

HasAnyDurationFlag(a) == \E i \in 1..Len(a) : a[i] = << "-t" >>

CommandBuilt == args # <<>>

\* C13: the recording argument list holds a duration-limiting flag exactly
\* when max_duration > 0: none for max_duration = 0, and for every
\* max_duration > 0 the flag with that duration.
C13_DurationFlagIffPositive ==
  CommandBuilt =>
    IF max_recording_duration > 0
    THEN HasDurationFlag(args, max_recording_duration)
    ELSE ~HasAnyDurationFlag(args)

\* C14: the argument list is, in this order: the input-format selector of the
\* platform, the input source built from the device index, the pcm_s16le
\* codec, the silencedetect filter with the noise floor behind a minus sign
\* as dB threshold and the silence limit as duration, the output path, and
\* the overwrite flag.
C14_ArgumentOrder ==
  CommandBuilt =>
    /\ Len(args) = 10
    /\ args[1] = << "-f" >>
    /\ args[2] = (IF platform = "linux" THEN << "pulse" >> ELSE << "avfoundation" >>)
    /\ args[3] = << "-i" >>
    /\ args[4] = << ":", device.index >>
    /\ args[5] = << "-acodec" >>
    /\ args[6] = << "pcm_s16le" >>
    /\ args[7] = << "-af" >>
    /\ args[8] = << "silencedetect=n=-", ToString(silence_detect_noise),
                    "dB:d=", ToString(SilenceLimit) >>
    /\ args[9] = OutputFile
    /\ args[10] = << "-y" >>

C14_Witness ==
  /\ pc = "await_reader"
  /\ platform = "linux"
  /\ device.index = "0"
  /\ silence_detect_noise = MaxNoise
  /\ args[2] = << "pulse" >>
  /\ args[4] = << ":", "0" >>
  /\ args[8][2] = ToString(MaxNoise)

ConfigRead == pc # "config"

\* C20: get_max_recording_duration gives 60 when nothing is configured, 0
\* when the configured value is zero or negative, the configured value when
\* it is positive, and never a negative number.
C20_MaxRecordingDuration ==
  ConfigRead =>
    /\ ~recorder_config.some => max_recording_duration = 60
    /\ recorder_config.some /\ recorder_config.v <= 0 => max_recording_duration = 0
    /\ recorder_config.some /\ recorder_config.v > 0 =>
         max_recording_duration = recorder_config.v
    /\ max_recording_duration >= 0

C20_Witness ==
  /\ pc = "dir_ok"
  /\ recorder_config = Some(-MaxDuration)
  /\ max_recording_duration = 0

\* The listing names a device: an entry line comes after the header line.
HeaderBeforeEntry(out) ==
  \E i, j \in 1..Len(out) :
    i < j /\ out[i].kind = "header" /\ out[j].kind = "entry"

\* The listing tool was run (the second subprocess of the attempt).
ListingRan == pc \notin { "start", "checked" } /\ procs >= 2

ListingFailed ==
  pc = "done" /\ result = "CouldNotExecuteFFMPEG" /\ directory = "unknown"

\* C15: when the listing tool ran, the listing does not fail, and when its
\* output names no device (no header, or no entry after the header) the
\* catalog is empty and the capture goes on with the default device; the
\* listing fails only when the tool could not be run.
C15_EmptyCatalogIsOk ==
  ListingRan =>
    /\ ~ListingFailed
    /\ ~HeaderBeforeEntry(list_output) =>
         /\ devices = <<>>
         /\ AfterSelection => device = DefaultDevice
         /\ CommandBuilt => args[4] = << ":", "default" >>

C15_Witness ==
  /\ pc = "await_reader"
  /\ Len(list_output) = 2
  /\ list_output[1].kind = "entry" /\ list_output[2].kind = "header"
  /\ preferred_audio_input_device = <<"a">>
  /\ devices = <<>>
  /\ device = DefaultDevice
  /\ args[4] = << ":", "default" >>

SpawnFailed == pc = "done" /\ directory = "created" /\ ~Spawned

AbnormalExit == pc = "done" /\ child = "reaped" /\ ExitRejected(exit_status)

\* C16 as stated: a failed spawn of the recorder is reported with the kind
\* used for a missing tool (FFMPEGNotFound), which differs from the kind
\* reported for an abnormal exit (CouldNotExecuteFFMPEG).
C16_SpawnFailureIsBackendUnavailable ==
  /\ SpawnFailed => result = "FFMPEGNotFound"
  /\ AbnormalExit => result = "CouldNotExecuteFFMPEG"

\* C16 as amended: a failed spawn of the recorder is reported with
\* CouldNotExecuteFFMPEG, the kind also reported for an abnormal exit, so the
\* kind does not tell the two apart; FFMPEGNotFound is reported only by the
\* version probe.
C16_SpawnFailureIsExecutionFailed ==
  /\ SpawnFailed => result = "CouldNotExecuteFFMPEG"
  /\ AbnormalExit => result = "CouldNotExecuteFFMPEG"
  /\ result = "FFMPEGNotFound" => probe \in { "unrunnable", "noversion" }

C16_Witness == SpawnFailed /\ result = "CouldNotExecuteFFMPEG" /\ procs = 2

\* C17: a line that read_line fails on is skipped: the line-reading loop does
\* not stop at it, it goes on to read the lines that follow.
C17_MalformedLineSkipped == reader # "error"

\* C18: no step of a capture removes the output file once the recorder has
\* created it; in particular it is still there when the exit status was
\* rejected and CouldNotExecuteFFMPEG returned.
C18_FileLeftOnFailure ==
  /\ [][file = "present" => file' = "present"]_vars
  /\ [](AbnormalExit => result = "CouldNotExecuteFFMPEG")

C18_Witness ==
  /\ AbnormalExit
  /\ result = "CouldNotExecuteFFMPEG"
  /\ file = "present"

TimerIs(i, st) == i <= Len(timers) /\ timers[i].st = st

LateKill == kills' # kills /\ child # "running"

\* C19: a timer's kill of a recorder that has already ended (by itself, by an
\* earlier kill, or already reaped by the supervisor) changes neither the
\* recorder's status nor the supervisor's place and result nor the output
\* file, and it is not blocked for ever: once the recorder has ended, again
\* and again no timer is left waiting to issue its kill.
C19_LateKillIsNoOp ==
  /\ [][LateKill => UNCHANGED << child, exit_status, exit_cause, pc, result, file >>]_vars
  /\ []<>(child = "running" \/ \A i \in TimerIds : ~TimerIs(i, "kill"))

C19_Witness ==
  /\ pc = "done"
  /\ child = "reaped"
  /\ exit_cause = "self"
  /\ kills = 2
  /\ \A i \in 1..Len(timers) : timers[i].st = "done"

Dropped(i) == temps[i].st = "dropped" /\ temps[i].at_new /\ ~temps[i].cleaned

\* C21: a TemporaryFile whose file was there at new and that was dropped
\* without cleanup() leaves the file on disk exactly when keep() was called
\* before the drop; and after cleanup() the file is gone.
C21_TemporaryFile ==
  \A i \in TempIds :
    /\ Dropped(i) => (temps[i].exists <=> temps[i].keep)
    /\ temps[i].cleaned => ~temps[i].exists

C21_Witness ==
  /\ Dropped(1) /\ temps[1].keep /\ temps[1].exists
  /\ Dropped(2) /\ ~temps[2].keep /\ ~temps[2].exists

\* The two steps in which the loop processes a line holding neither marker.
OtherLineRead == reader = "read" /\ reader' = "check_end" /\ line' = "other"

OtherLineChecked == reader = "check_end" /\ line = "other" /\ reader' = "read"

\* C22: processing a line that contains neither silence_start nor silence_end
\* leaves the kill flag, every timer task, the held timer handle and the
\* number of kills as they were.
C22_OtherLineChangesNothing ==
  [][(OtherLineRead \/ OtherLineChecked) =>
       UNCHANGED << should_kill, timers, timer_slot, kills >>]_vars

C22_Witness ==
  /\ reader = "check_end" /\ line = "other"
  /\ should_kill /\ timer_slot # 0
  /\ timers[timer_slot].st = "sleep"

\* C23: during one capture at most one kill request is issued to the
\* recorder, whatever the lines and the interleaving of the timer tasks.
C23_AtMostOneKill == kills <= 1

\* C24: when record_audio has returned, no timer task of the capture is
\* still pending: each one has fired or was cancelled.
C24_NoTimerOutlivesCapture == pc = "done" => LiveTimers = {}

\* The supervisor is past handle.await: it has left the monitoring of lines.
LeftRecording == pc \in { "joined", "waiting" } \/ (pc = "done" /\ Spawned)

TimerHasFired == kills > 0 \/ \E i \in TimerIds : TimerIs(i, "kill")

\* Each step has run only after every earlier one succeeded.
StepsInOrder ==
  /\ pc # "start" <=> probe # "none"
  /\ procs >= 2 => probe = "found"
  /\ pc \in { "listed", "selected", "dir_ok" } => procs = 2
  /\ directory # "unknown" => procs >= 2 /\ pc \notin { "listed", "selected" }
  /\ Spawned => directory = "created" /\ procs = 3
  /\ reader # "idle" <=> Spawned
  /\ (child_lock = "supervisor" \/ child = "reaped") => LeftRecording
  /\ LeftRecording => reader \in { "eof", "error" }

\* C25: the supervisor leaves the monitoring of lines only because the
\* stream reached its end or because a timer fired, it waits for the exit
\* status only after that, and the steps of a capture run in the order
\* probe, listing, selection, directory, spawn, monitoring, wait, each one
\* only after the earlier ones succeeded.
C25_CaptureOrder ==
  /\ LeftRecording => (reader = "eof" \/ TimerHasFired)
  /\ StepsInOrder

\* C26: the timer's kill and the supervisor's wait both go through the
\* handle's mutex: the supervisor is in wait() exactly while it holds the
\* mutex, and no kill() is called while it does.
C26_KillAndWaitExclude ==
  /\ [](pc = "waiting" <=> child_lock = "supervisor")
  /\ [][kills' # kills => child_lock = "free" /\ pc # "waiting"]_vars

\* A timer is at its kill() while the supervisor is inside wait().
C26_Witness ==
  /\ pc = "waiting" /\ child_lock = "supervisor" /\ child = "running"
  /\ \E i \in TimerIds : TimerIs(i, "kill")

\* The reader task has returned, the recorder still runs, and a timer that
\* was armed and not disarmed has yet to deliver its kill.
LoopEndedTimerArmed ==
  /\ reader \in { "eof", "error" }
  /\ child = "running"
  /\ should_kill
  /\ LiveTimers # {}

\* C27: when the line-reading loop ends with the recorder still running and
\* a timer armed and not disarmed, the timer's kill is delivered in the end
\* and the capture returns: the supervisor's wait for the exit never blocks
\* the timer for ever.
C27_ArmedTimerEndsCapture == LoopEndedTimerArmed ~> (pc = "done")

\* This step returns a failure of a capture whose recorder was spawned.
FailsAfterSpawn == pc # "done" /\ pc' = "done" /\ Spawned /\ result' # "Ok"

\* C28: whenever a capture returns a failure after the recorder was spawned,
\* the recorder was killed or its exit was awaited before the return.
C28_NoRecorderLeftBehind ==
  [][FailsAfterSpawn => (child' = "reaped" \/ exit_cause' = "kill")]_vars

\* C29: no kill is issued before the first silence_start line has been
\* processed, though should_kill starts as true: only a timer task kills,
\* and a timer task is spawned only in the processing of a silence_start.
C29_NoKillBeforeFirstStart ==
  /\ [](timers = <<>> => kills = 0 /\ exit_cause # "kill")
  /\ [][Len(timers') > Len(timers) => line' \in { "start", "both" }]_vars
  /\ [][kills' # kills => \E i \in TimerIds : TimerIs(i, "kill")]_vars

\* Lines are being processed, the flag is set, and no timer exists yet.
C29_Witness ==
  /\ reader = "check_end" /\ line = "other"
  /\ should_kill /\ timers = <<>> /\ kills = 0
  /\ child = "running"

\* C30: for every catalog and every preferred name the selection of the
\* Linux platform, the one of the macOS platform and the one of
\* AudioRecorder return the same device, index and name.
C30_SelectionSameOnEveryPlatform ==
  AfterSelection =>
    /\ device = select_audio_input_device(devices, preferred_audio_input_device)
    /\ LinuxPlatform_select_audio_input_device(
         devices, preferred_audio_input_device)
         = MacOSPlatform_select_audio_input_device(
             devices, preferred_audio_input_device)

\* The Linux platform has selected the second of two devices, the only one
\* whose name contains the preferred name.
C30_Witness ==
  /\ pc = "selected" /\ platform = "linux"
  /\ preferred_audio_input_device # <<>>
  /\ Len(devices) = 2
  /\ ~Matches(1) /\ Matches(2)
  /\ device = devices[2]

====
